---- MODULE Spec2Model ----
(***************************************************************************)
(* smt-form: GenericForm (react-hook-form useForm + zodResolver) with its  *)
(* imperative handle, and the field components TextField, SelectField and  *)
(* CheckboxField bound to field paths of the form state.                   *)
(*                                                                         *)
(* The form modelled is the Quick Start form of the README: a text field   *)
(* "name", a select field "department" and a checkbox "agreeToTerms",      *)
(* validated by userSchema. Its second TextField ("email") is left out.    *)
(* Every path has a value in initialValues and in reset(values).           *)
(*                                                                         *)
(* Spec is that form with its schema, SpecNoSchema the same form without   *)
(* a schema prop, SpecRegistration the UserRegistrationForm example, and   *)
(* SpecComponents the field components rendered on their own.              *)
(***************************************************************************)
EXTENDS Integers, Sequences, FiniteSets, TLC

(* ---------------------------------------------------------------------- *)
(* Bounds                                                                  *)
(* ---------------------------------------------------------------------- *)
\* renders of the mounted form that are followed (each one installs a handle)
MaxRenders == 2
\* invocations of onSubmit that are counted
MaxCalls == 1
\* operations that may run between two renders (React renders as soon as the
\* task that changed the form state ends)
MaxUnflushed == 1
\* options passed to a SelectField rendered on its own
MaxOptions == 2

(* ---------------------------------------------------------------------- *)
(* State                                                                   *)
(* ---------------------------------------------------------------------- *)
VARIABLES
  initialValues,   \* the initialValues prop of the mounted GenericForm
  formValues,      \* control._formValues of useForm
  defaultValues,   \* control._defaultValues of useForm
  errors,          \* control._formState.errors, by path
  isSubmitted,     \* control._formState.isSubmitted
  pending,         \* <<result>> while a handleSubmit call awaits its resolver
  calls,           \* number of onSubmit invocations (saturates at MaxCalls)
  lastData,        \* <<data>> of the latest onSubmit invocation, <<>> if none
  rendered,        \* what each field component showed at the latest render
  handle,          \* ref.current: the object the latest render installed
  renders,         \* number of renders (saturates at MaxRenders)
  unflushed,       \* operations since the latest render
  lastOp,          \* the latest operation: [op, path]
  written,         \* the argument of the latest write to each path
  baseline,        \* the argument of the latest reset(values), else initialValues
  form,            \* which form is mounted (its schema prop and children)
  handler,         \* running invocations of an asynchronous onSubmit handler
  comp             \* a field component rendered on its own: props and output

formVars == << initialValues, formValues, defaultValues, errors, isSubmitted,
               pending, calls, lastData, rendered, handle, renders, unflushed,
               lastOp, written, baseline, form, handler >>

vars == << formVars, comp >>

(* ---------------------------------------------------------------------- *)
(* The form: field paths, value domains, schema                            *)
(* ---------------------------------------------------------------------- *)
Paths == {"name", "department", "agreeToTerms"}

\* texts a user can type into the name field (lengths 0, 1 and 2)
Texts == {"", "A", "Al"}

\* departmentOptions: the options passed to the SelectField, in order (the
\* first two of the README's three)
departmentOptions ==
  << [value |-> "engineering", text |-> "Engineering", disabled |-> FALSE],
     [value |-> "marketing", text |-> "Marketing", disabled |-> FALSE] >>

\* values that code outside the form can put at a path (setValue takes
\* `unknown`): the user-reachable ones and one the schema rejects
ValuesAt(p) ==
  CASE p = "name" -> Texts
    [] p = "department" -> {"engineering", "marketing", "legal"}
    [] p = "agreeToTerms" -> BOOLEAN

FormValues ==
  [name : ValuesAt("name"), department : ValuesAt("department"),
   agreeToTerms : ValuesAt("agreeToTerms")]

\* the initialValues prop a GenericForm is created with
InitialValuesSet ==
  { [name |-> "", department |-> "engineering", agreeToTerms |-> FALSE] }

\* the arguments code outside the form passes to reset(values)
ResetValuesSet ==
  { [name |-> "Al", department |-> "marketing", agreeToTerms |-> TRUE] }

NoError == "none"

NoErrors == [p \in Paths |-> NoError]

isEmptyObject(errs) == \A p \in DOMAIN errs : errs[p] = NoError

\* userSchema: the issue message of each path, NoError where the path passes
userSchema(values) ==
  [p \in Paths |->
     CASE p = "name" ->
            IF Len(values[p]) >= 2 THEN NoError ELSE "Name is required"
       [] p = "department" ->
            IF values[p] \in {"engineering", "marketing", "sales"}
              THEN NoError ELSE "Invalid option"
       [] p = "agreeToTerms" ->
            IF values[p] = TRUE THEN NoError
                                ELSE "You must agree to the terms"]

(* ---------------------------------------------------------------------- *)
(* The UserRegistrationForm example: its schema, options, initial values   *)
(* ---------------------------------------------------------------------- *)
UserRegistration_Paths ==
  {"firstName", "lastName", "email", "department", "role"}

\* the texts its user types into each TextField
UserRegistration_Texts(p) ==
  CASE p = "firstName" -> {"", "Al"}
    [] p = "lastName" -> {"", "Li"}
    [] p = "email" -> {"", "a@b.co"}
    [] p = "role" -> {"", "dev"}

\* the texts z.email accepts
Emails == {"a@b.co"}

\* departmentOptions of the example (the first two of its four)
UserRegistration_departmentOptions ==
  << [value |-> "engineering", text |-> "Engineering", disabled |-> FALSE],
     [value |-> "marketing", text |-> "Marketing", disabled |-> FALSE] >>

\* initialValues of the example
UserRegistration_initialValues ==
  [firstName |-> "", lastName |-> "", email |-> "",
   department |-> "engineering", role |-> ""]

\* userSchema of the example: the issue message of each path
UserRegistration_userSchema(values) ==
  [p \in UserRegistration_Paths |->
     CASE p = "firstName" ->
            IF Len(values[p]) >= 2 THEN NoError
            ELSE "First name must be at least 2 characters"
       [] p = "lastName" ->
            IF Len(values[p]) >= 2 THEN NoError
            ELSE "Last name must be at least 2 characters"
       [] p = "email" ->
            IF values[p] \in Emails THEN NoError
            ELSE "Please enter a valid email address"
       [] p = "department" ->
            IF values[p] \in {"engineering", "marketing", "sales", "hr"}
              THEN NoError ELSE "Invalid option"
       [] p = "role" ->
            IF Len(values[p]) >= 1 THEN NoError ELSE "Role is required"]

UserRegistration_NoErrors == [p \in UserRegistration_Paths |-> NoError]

\* the schema prop of the mounted form, applied to a value object
schema(values) ==
  IF form = "UserRegistrationForm" THEN UserRegistration_userSchema(values)
                                   ELSE userSchema(values)

\* zodResolver(schema): values -> {errors, values}. On success values is the
\* schema's output; on failure the resolver returns no values, and the field
\* then keeps the input only so that the record has one shape.
zodResolver(values) ==
  LET issues == schema(values) IN
  [ok |-> isEmptyObject(issues), errors |-> issues, values |-> values]

(* ---------------------------------------------------------------------- *)
(* Rendering                                                               *)
(* ---------------------------------------------------------------------- *)
\* FormMessage of components/ui/form: the error message of the enclosing
\* FormField's name, nothing when that path has no error
FormMessage(name, errs) == errs[name]

\* a field that shows the default value of its path
fieldValue_default(name, values) == defaultValues[name]

\* field.value of the FormField render prop: the form value at `name`
fieldValue(name, values) == values[name]

TextField(name, values, errs) ==
  [value |-> fieldValue(name, values), message |-> FormMessage(name, errs)]

SelectField(name, values, errs) ==
  [value |-> fieldValue(name, values), message |-> FormMessage(name, errs)]

CheckboxField(name, values, errs) ==
  [value |-> fieldValue(name, values), message |-> FormMessage(name, errs)]

\* the children of the Quick Start form, by the path each is bound to
Children(values, errs) ==
  [name |-> TextField("name", values, errs),
   department |-> SelectField("department", values, errs),
   agreeToTerms |-> CheckboxField("agreeToTerms", values, errs)]

\* useImperativeHandle(ref, () => ({...})) without dependencies: every render
\* builds a new object; formState is the snapshot that render was given
useImperativeHandle(n, errs) == [id |-> n, formState |-> [errors |-> errs]]

Min(a, b) == IF a < b THEN a ELSE b

\* no component is rendered on its own
NoComponent == [kind |-> "none"]

\* an optional prop is << >> when it is not passed and << v >> when it is
Passed(prop) == prop # << >>

\* the value of an optional prop with a default
Default(prop, d) == IF Passed(prop) THEN prop[1] ELSE d

\* a SubmitButton that is disabled only while loading
SubmitButton_ignoresDisabled(props) ==
  LET label == Default(props.label, "Submit")
      loadingLabel == Default(props.loadingLabel, "Submitting...")
      isLoading == Default(props.isLoading, FALSE)
  IN [type |-> "submit",
      disabled |-> isLoading,
      text |-> IF isLoading THEN loadingLabel ELSE label]

\* SubmitButton: the Button's type, disabled attribute and text
SubmitButton(props) ==
  LET label == Default(props.label, "Submit")
      loadingLabel == Default(props.loadingLabel, "Submitting...")
      isLoading == Default(props.isLoading, FALSE)
      disabled == Default(props.disabled, FALSE)
  IN [type |-> "submit",
      disabled |-> isLoading \/ disabled,
      text |-> IF isLoading THEN loadingLabel ELSE label]

\* a SelectField whose items do not take the option's disabled flag
SelectItems_allEnabled(options) ==
  [i \in 1..Len(options) |->
     [value |-> options[i].value, text |-> options[i].text,
      disabled |-> FALSE]]

\* SelectField: options.map(option => <SelectItem value disabled>text)
SelectItems(options) ==
  [i \in 1..Len(options) |->
     [value |-> options[i].value, text |-> options[i].text,
      disabled |-> options[i].disabled]]

\* the items a user can pick: none when <Select disabled>, else the items
\* that are not disabled
Selectable(disabled, items) ==
  IF disabled THEN {} ELSE { i \in 1..Len(items) : ~items[i].disabled }

\* a TextField whose input keeps the id FormControl generates
TextFieldMarkup_noId(name, label, required) ==
  [label |-> IF Passed(label) /\ label[1] # ""
               THEN << [htmlFor |-> name,
                        spans |-> << label[1] >> \o
                                  (IF required THEN << "*" >> ELSE << >>)] >>
               ELSE << >>,
   input |-> [id |-> "form-item"]]

\* TextField: the label element ({label && <FormLabel htmlFor={name}>}, with
\* the label text and the required mark as spans) and the id of the Input
TextFieldMarkup(name, label, required) ==
  [label |-> IF Passed(label) /\ label[1] # ""
               THEN << [htmlFor |-> name,
                        spans |-> << label[1] >> \o
                                  (IF required THEN << "*" >> ELSE << >>)] >>
               ELSE << >>,
   input |-> [id |-> name]]

\* a form created without its defaultValues
useForm_noDefaults(iv) ==
  LET empty == [name |-> "", department |-> "", agreeToTerms |-> FALSE] IN
  [formValues |-> empty, defaultValues |-> empty]

\* useForm({defaultValues: initialValues, resolver}) on the first render
useForm(iv) == [formValues |-> iv, defaultValues |-> iv]


\* the children of the UserRegistrationForm example: four TextFields, a
\* SelectField, and a SubmitButton that is given label and loadingLabel only
UserRegistration_children(values, errs) ==
  [firstName |-> TextField("firstName", values, errs),
   lastName |-> TextField("lastName", values, errs),
   email |-> TextField("email", values, errs),
   department |-> SelectField("department", values, errs),
   role |-> TextField("role", values, errs),
   submitButton |-> SubmitButton([label |-> << "Register User" >>,
                                  loadingLabel |-> << "Creating Account..." >>,
                                  isLoading |-> << >>,
                                  disabled |-> << >>])]

\* {children} of the mounted GenericForm
children(values, errs) ==
  IF form = "UserRegistrationForm" THEN UserRegistration_children(values, errs)
                                   ELSE Children(values, errs)

(* ---------------------------------------------------------------------- *)
(* Form-state operations (react-hook-form control, as GenericForm uses it) *)
(* ---------------------------------------------------------------------- *)
\* a GenericForm that validates with the Quick Start schema in any case
resolver_always(values) == zodResolver(values)

\* resolver: schema ? zodResolver(schema) : undefined. Without a resolver
\* handleSubmit validates the rules of the registered fields; the field
\* components register none, so every value object passes as it is.
resolver(values) ==
  IF form = "NoSchema"
    THEN [ok |-> TRUE, errors |-> NoErrors, values |-> values]
    ELSE zodResolver(values)

\* an onChange that never reaches the form state
onChange_dropped(name, value) == formValues

\* field.onChange(event): stores the event's value at the field's name
onChange(name, value) == [formValues EXCEPT ![name] = value]

\* reValidateMode 'onChange': once the form was submitted, a change of a
\* field validates again and replaces the error of that field only
revalidate(name, values) ==
  IF isSubmitted THEN [errors EXCEPT ![name] = resolver(values).errors[name]]
                 ELSE errors

\* a getValues that returns the values of the first render
getValues_defaults == defaultValues

\* handle.getValues = form.getValues: reads the control's live values
getValues == formValues

\* a setValue that rebuilds the values from the defaults
setValue_clobber(name, value) == [defaultValues EXCEPT ![name] = value]

\* handle.setValue(name, value) => form.setValue(name, value)
setValue(name, value) == [formValues EXCEPT ![name] = value]

\* a reset that keeps the default values it was created with
reset_keepDefaultValues(arg) ==
  [formValues |-> IF arg = << >> THEN defaultValues ELSE arg[1],
   defaultValues |-> defaultValues]

\* handle.reset(values) => form.reset(values); arg is <<>> for reset() and
\* <<values>> for reset(values). Given values replace the default values.
reset(arg) ==
  LET updatedValues == IF arg = <<>> THEN defaultValues ELSE arg[1] IN
  [formValues |-> updatedValues, defaultValues |-> updatedValues]

\* a handleSubmit that calls onSubmit whatever the resolver found
handleSubmit_unchecked(result) ==
  [errors |-> result.errors, invoke |-> TRUE, data |-> result.values]

\* a handleSubmit that does not store the resolver's errors
handleSubmit_dropErrors(result) ==
  [errors |-> NoErrors,
   invoke |-> isEmptyObject(result.errors),
   data |-> result.values]

\* form.handleSubmit(onSubmit), after the resolver returned `result`:
\* errors are stored; onSubmit is called with the resolver's values iff there
\* are none
handleSubmit(result) ==
  [errors |-> result.errors,
   invoke |-> isEmptyObject(result.errors),
   data |-> result.values]

(* ---------------------------------------------------------------------- *)
(* Actions                                                                 *)
(* ---------------------------------------------------------------------- *)
\* the state after the first render of the form `f`
InitForm(f) ==
  /\ initialValues \in InitialValuesSet
  /\ formValues = useForm(initialValues).formValues
  /\ defaultValues = useForm(initialValues).defaultValues
  /\ errors = NoErrors
  /\ isSubmitted = FALSE
  /\ pending = << >>
  /\ calls = 0
  /\ lastData = << >>
  /\ rendered = Children(formValues, errors)
  /\ handle = useImperativeHandle(1, errors)
  /\ renders = 1
  /\ unflushed = 0
  /\ lastOp = [op |-> "mount", path |-> "-"]
  /\ written = initialValues
  /\ baseline = initialValues
  /\ form = f
  /\ handler = 0
  /\ comp = NoComponent

\* the Quick Start form, with schema={userSchema}
Init == InitForm("QuickStart")

\* the Quick Start form without the schema prop
InitNoSchema == InitForm("NoSchema")

\* an operation on the form state runs while fewer than MaxUnflushed
\* operations await the render they scheduled
Operation ==
  /\ unflushed < MaxUnflushed
  /\ unflushed' = unflushed + 1

\* a user input event on the field bound to `name` carrying `value`
Input(kind, name, value) ==
  /\ formValues' = onChange(name, value)
  /\ errors' = revalidate(name, formValues')
  /\ written' = [formValues' EXCEPT ![name] = value]
  /\ lastOp' = [op |-> kind, path |-> name]
  /\ Operation
  /\ UNCHANGED << form, handler, comp, initialValues, defaultValues, isSubmitted, pending, calls,
                  lastData, rendered, handle, renders, baseline >>

\* TextField: the user edits the text; Input's onChange is field.onChange
TextChange == \E v \in Texts : Input("input", "name", v)

\* SelectField: the user picks an enabled option; onValueChange is
\* field.onChange
SelectOption ==
  \E i \in 1..Len(departmentOptions) :
    /\ ~departmentOptions[i].disabled
    /\ Input("input", "department", departmentOptions[i].value)

\* CheckboxField: the user toggles the box it shows; onCheckedChange is
\* field.onChange
ToggleCheckbox ==
  Input("input", "agreeToTerms", ~rendered.agreeToTerms.value)

\* a submit event on the <form>: handleSubmit hands the current values to
\* the resolver and awaits it (one handleSubmit call is followed at a time)
SubmitEvent ==
  /\ pending = << >>
  /\ pending' = Append(pending, resolver(formValues))
  /\ lastOp' = [op |-> "submit", path |-> "-"]
  /\ written' = formValues
  /\ Operation
  /\ UNCHANGED << form, handler, comp, initialValues, formValues, defaultValues, errors,
                  isSubmitted, calls, lastData, rendered, handle, renders, baseline >>

\* the resolver of the oldest awaiting handleSubmit returns
SubmitSettle ==
  /\ pending # << >>
  /\ LET r == handleSubmit(Head(pending)) IN
       /\ errors' = r.errors
       /\ calls' = IF r.invoke THEN Min(calls + 1, MaxCalls) ELSE calls
       /\ lastData' = IF r.invoke THEN << r.data >> ELSE lastData
       /\ lastOp' = [op |-> IF r.invoke THEN "onSubmit" ELSE "invalid",
                     path |-> "-"]
  /\ pending' = Tail(pending)
  /\ isSubmitted' = TRUE
  /\ written' = formValues
  /\ Operation
  /\ UNCHANGED << form, handler, comp, initialValues, formValues, defaultValues, rendered, handle,
                  renders, baseline >>

\* ref.current.setValue(name, value) called by code outside the form
HandleSetValue ==
  \E name \in Paths : \E value \in ValuesAt(name) :
    /\ formValues' = setValue(name, value)
    /\ written' = [formValues' EXCEPT ![name] = value]
    /\ lastOp' = [op |-> "setValue", path |-> name]
    /\ Operation
    /\ UNCHANGED << form, handler, comp, initialValues, defaultValues, errors, isSubmitted,
                    pending, calls, lastData, rendered, handle, renders, baseline >>

\* ref.current.reset() or ref.current.reset(values) called by code outside
\* the form; reset also clears errors and isSubmitted
HandleReset ==
  \E arg \in {<< >>} \cup { << v >> : v \in ResetValuesSet } :
    /\ formValues' = reset(arg).formValues
    /\ defaultValues' = reset(arg).defaultValues
    /\ errors' = NoErrors
    /\ isSubmitted' = FALSE
    /\ written' = formValues'
    /\ baseline' = IF arg = << >> THEN baseline ELSE arg[1]
    /\ lastOp' = [op |-> IF arg = << >> THEN "reset" ELSE "resetTo",
                  path |-> "-"]
    /\ Operation
    /\ UNCHANGED << form, handler, comp, initialValues, pending, calls, lastData, rendered,
                    handle, renders >>

\* GenericForm renders again (state change or parent render): the fields show
\* the form state and useImperativeHandle installs a handle
Render ==
  /\ rendered' = children(formValues, errors)
  /\ renders' = Min(renders + 1, MaxRenders)
  /\ handle' = useImperativeHandle(renders', errors)
  /\ unflushed' = 0
  /\ UNCHANGED << form, handler, comp, initialValues, formValues, defaultValues, errors,
                  isSubmitted, pending, calls, lastData, lastOp, written,
                  baseline >>

Next ==
  \/ TextChange
  \/ SelectOption
  \/ ToggleCheckbox
  \/ SubmitEvent
  \/ SubmitSettle
  \/ HandleSetValue
  \/ HandleReset
  \/ Render

Spec == Init /\ [][Next]_vars

\* the form without a schema, driven by its user and by reset calls
NextNoSchema ==
  \/ TextChange
  \/ SelectOption
  \/ ToggleCheckbox
  \/ SubmitEvent
  \/ SubmitSettle
  \/ HandleReset
  \/ Render

SpecNoSchema == InitNoSchema /\ [][NextNoSchema]_vars

(* ---------------------------------------------------------------------- *)
(* The UserRegistrationForm example: GenericForm with the example's schema, *)
(* initial values and children; onSubmit is the example's async            *)
(* handleSubmit, and a 'Reset Form' button calls handleReset               *)
(* ---------------------------------------------------------------------- *)
\* a handleSubmit that leaves the form as it is
UserRegistration_handleSubmit_noReset ==
  [formValues |-> formValues, defaultValues |-> defaultValues]

\* handleSubmit of the example, after its await: formRef.current?.reset()
UserRegistration_handleSubmit == reset(<< >>)

\* handleReset of the example: formRef.current?.reset()
UserRegistration_handleReset == reset(<< >>)

\* a 'Reset Form' button without a type, which a form treats as its submit
\* button
ResetButton_untyped == [type |-> "submit", onClick |-> "handleReset"]

\* <button type="button" onClick={handleReset}>Reset Form</button>
ResetButton == [type |-> "button", onClick |-> "handleReset"]

\* the state after the first render of the example
UserRegistration_Init ==
  /\ form = "UserRegistrationForm"
  /\ initialValues = UserRegistration_initialValues
  /\ formValues = useForm(initialValues).formValues
  /\ defaultValues = useForm(initialValues).defaultValues
  /\ errors = UserRegistration_NoErrors
  /\ isSubmitted = FALSE
  /\ pending = << >>
  /\ calls = 0
  /\ lastData = << >>
  /\ rendered = UserRegistration_children(formValues, errors)
  /\ handle = useImperativeHandle(1, errors)
  /\ renders = 1
  /\ unflushed = 0
  /\ lastOp = [op |-> "mount", path |-> "-"]
  /\ written = initialValues
  /\ baseline = initialValues
  /\ handler = 0
  /\ comp = NoComponent

\* the user edits the text of one of the four TextFields
UserRegistration_TextChange ==
  \E p \in {"firstName", "lastName", "email", "role"} :
    \E v \in UserRegistration_Texts(p) : Input("input", p, v)

\* the user picks a department
UserRegistration_SelectOption ==
  \E i \in 1..Len(UserRegistration_departmentOptions) :
    Input("input", "department", UserRegistration_departmentOptions[i].value)

\* the user clicks 'Register User' (or presses Enter in a field); one
\* submission is followed at a time, up to the return of its handler
UserRegistration_Submit ==
  /\ handler = 0
  /\ SubmitEvent

\* the resolver of the awaiting handleSubmit returns: with errors the
\* submission ends here; without, onSubmit = handleSubmit of the example is
\* called and runs up to its await
UserRegistration_SubmitSettle ==
  /\ pending # << >>
  /\ LET r == handleSubmit(Head(pending)) IN
       /\ errors' = r.errors
       /\ calls' = IF r.invoke THEN Min(calls + 1, MaxCalls) ELSE calls
       /\ lastData' = IF r.invoke THEN << r.data >> ELSE lastData
       /\ handler' = IF r.invoke THEN handler + 1 ELSE handler
       /\ isSubmitted' = IF r.invoke THEN isSubmitted ELSE TRUE
       /\ lastOp' = [op |-> IF r.invoke THEN "onSubmit" ELSE "invalid",
                     path |-> "-"]
  /\ pending' = Tail(pending)
  /\ written' = formValues
  /\ Operation
  /\ UNCHANGED << form, comp, initialValues, formValues, defaultValues,
                  rendered, handle, renders, baseline >>

\* a running handleSubmit of the example resumes after its await, resets the
\* form through the handle and returns; the form's handleSubmit then marks
\* the form as submitted
UserRegistration_HandlerResumes ==
  /\ handler > 0
  /\ handler' = handler - 1
  /\ formValues' = UserRegistration_handleSubmit.formValues
  /\ defaultValues' = UserRegistration_handleSubmit.defaultValues
  /\ errors' = UserRegistration_NoErrors
  /\ isSubmitted' = TRUE
  /\ written' = formValues'
  /\ lastOp' = [op |-> "handlerDone", path |-> "-"]
  /\ Operation
  /\ UNCHANGED << form, comp, initialValues, pending, calls, lastData,
                  rendered, handle, renders, baseline >>

\* the user clicks 'Reset Form': onClick runs handleReset; only a button of
\* type "submit" would go on to submit the form with the values it then has
UserRegistration_ClickReset ==
  /\ formValues' = UserRegistration_handleReset.formValues
  /\ defaultValues' = UserRegistration_handleReset.defaultValues
  /\ errors' = UserRegistration_NoErrors
  /\ isSubmitted' = FALSE
  /\ pending' = IF ResetButton.type = "submit" /\ pending = << >>
                  THEN << resolver(formValues') >>
                  ELSE pending
  /\ written' = formValues'
  /\ lastOp' = [op |-> "resetButton", path |-> "-"]
  /\ Operation
  /\ UNCHANGED << form, comp, handler, initialValues, calls, lastData,
                  rendered, handle, renders, baseline >>

NextRegistration ==
  \/ UserRegistration_TextChange
  \/ UserRegistration_SelectOption
  \/ UserRegistration_Submit
  \/ UserRegistration_SubmitSettle
  \/ UserRegistration_HandlerResumes
  \/ UserRegistration_ClickReset
  \/ Render

SpecRegistration == UserRegistration_Init /\ [][NextRegistration]_vars

(* ---------------------------------------------------------------------- *)
(* Field components rendered on their own, with props from small sets      *)
(* ---------------------------------------------------------------------- *)
FieldNames == {"name", "email"}

LabelProps == { << >>, << "" >>, << "Name" >>, << "Email" >> }

TextFieldProps == [name : FieldNames, label : LabelProps, required : BOOLEAN]

\* a TextField is rendered inside a GenericForm with the given props
RenderTextField ==
  \E props \in TextFieldProps :
    /\ comp' = [kind |-> "TextField", props |-> props,
                out |-> TextFieldMarkup(props.name, props.label,
                                        props.required)]
    /\ UNCHANGED formVars

Opt(S) == { << >> } \cup { << v >> : v \in S }

SubmitButtonProps ==
  [label : Opt({"Save"}), loadingLabel : Opt({"Saving..."}),
   isLoading : Opt(BOOLEAN), disabled : Opt(BOOLEAN)]

\* a SubmitButton is rendered with the given props
RenderSubmitButton ==
  \E props \in SubmitButtonProps :
    /\ comp' = [kind |-> "SubmitButton", props |-> props,
                out |-> SubmitButton(props)]
    /\ UNCHANGED formVars

SelectOptions ==
  [value : {"engineering", "marketing"}, text : {"Dept"}, disabled : BOOLEAN]

SeqsUpTo(S, n) == UNION { [1..k -> S] : k \in 0..n }

SelectFieldProps ==
  [name : {"department"}, options : SeqsUpTo(SelectOptions, MaxOptions),
   disabled : BOOLEAN]

\* a SelectField is rendered with the given props, bound to a field that
\* holds `value`; no user selection was made yet
RenderSelectField ==
  \E props \in SelectFieldProps : \E value \in {"engineering", "legal"} :
    /\ comp' = [kind |-> "SelectField", props |-> props,
                out |-> SelectItems(props.options),
                value |-> value, picked |-> << >>]
    /\ UNCHANGED formVars

\* the user picks an item of the rendered SelectField: onValueChange is
\* field.onChange, which stores the item's value in the bound field
PickSelectItem ==
  /\ comp.kind = "SelectField"
  /\ \E i \in Selectable(comp.props.disabled, comp.out) :
       comp' = [comp EXCEPT !.value = comp.out[i].value, !.picked = << i >>]
  /\ UNCHANGED formVars

NextComponents ==
  \/ RenderTextField
  \/ RenderSubmitButton
  \/ RenderSelectField
  \/ PickSelectItem

SpecComponents == Init /\ [][NextComponents]_vars

TypeOK ==
  /\ formValues \in FormValues
  /\ defaultValues \in FormValues
  /\ calls \in 0..MaxCalls
  /\ renders \in 1..MaxRenders


(* ---------------------------------------------------------------------- *)
(* Properties                                                              *)
(* ---------------------------------------------------------------------- *)
\* the step is an operation on the form state (not a render)
OpStep == unflushed' = unflushed + 1

\* the step is the return of a resolver to its handleSubmit
SettleStep == OpStep /\ pending # << >> /\ pending' = << >>

Accepts(values) == isEmptyObject(userSchema(values))

\* C1: onSubmit is invoked only when a handleSubmit call settles whose
\* submit event found values the schema accepts, the data it receives is the
\* value the schema accepted, and no step at all leaves onSubmit called with
\* data the schema rejects.
C1_OnSubmitOnlyValidated ==
  [][ /\ (lastData' # lastData \/ calls' # calls)
           => (SettleStep /\ lastOp'.op = "onSubmit")
      /\ (OpStep /\ lastOp'.op = "onSubmit")
           => /\ SettleStep
              /\ Accepts(Head(pending).values)
              /\ lastData' = << Head(pending).values >>
      /\ lastData' # << >> => Accepts(lastData'[1]) ]_vars

\* C1 witness: onSubmit was just called, after the form values were changed
\* to rejected ones while the resolver was awaited
C1_Witness ==
  /\ lastOp.op = "onSubmit"
  /\ lastData # << >>
  /\ ~Accepts(formValues)

\* C2: when the resolver of a submit event rejects the values, onSubmit is
\* not invoked and the form state has an error message at exactly the
\* rejected paths; and every render shows, in the field bound to a path, the
\* error message of that path.
C2_RejectedSubmitShowsErrors ==
  [][ /\ (SettleStep /\ ~Accepts(Head(pending).values))
           => /\ calls' = calls
              /\ lastData' = lastData
              /\ lastOp'.op = "invalid"
              /\ \A p \in Paths :
                   errors'[p] = userSchema(Head(pending).values)[p]
              /\ \E p \in Paths : errors'[p] # NoError
      /\ unflushed' = 0
           => \A p \in Paths : rendered'[p].message = errors'[p] ]_vars

\* C2 witness: a rejected submit was rendered; the name field shows its
\* message and the department field shows none
C2_Witness ==
  /\ lastOp.op = "invalid"
  /\ unflushed = 0
  /\ rendered.name.message = "Name is required"
  /\ rendered.department.message = NoError
  /\ rendered.agreeToTerms.message = "You must agree to the terms"

\* C3: after a render, every field component shows the form-state value at
\* its own path.
C3_RenderedValueIsFormValue ==
  unflushed = 0 => \A p \in Paths : rendered[p].value = formValues[p]

\* C3 witness: a render after all three fields were changed
C3_Witness ==
  /\ unflushed = 0
  /\ rendered.name.value = "Al"
  /\ rendered.department.value = "marketing"
  /\ rendered.agreeToTerms.value = TRUE

\* C4: after a user input on a field the form state has the input's value
\* at the field's path, and a render that follows shows that value.
C4_InputAppliedBeforeRender ==
  lastOp.op = "input" =>
    /\ formValues[lastOp.path] = written[lastOp.path]
    /\ unflushed = 0 => rendered[lastOp.path].value = written[lastOp.path]

\* C4 witness: the user picked an option and the form rendered it
C4_Witness ==
  /\ lastOp = [op |-> "input", path |-> "department"]
  /\ unflushed = 0
  /\ written.department = "marketing"
  /\ rendered.department.value = "marketing"

\* C5 as claimed: reset() sets every value back to initialValues, whatever
\* came before it.
C5_ResetRestoresInitialValues ==
  lastOp.op = "reset" => formValues = initialValues

\* C5: reset() sets every value back to the argument of the latest
\* reset(values) call, and to initialValues when there was none.
C5_ResetRestoresBaseline ==
  lastOp.op = "reset" => formValues = baseline

\* C5 witness: reset() after a reset(values) and a successful submit
C5_Witness ==
  /\ lastOp.op = "reset"
  /\ baseline # initialValues
  /\ formValues = baseline
  /\ calls > 0

\* C6: right after setValue(p, v) getValues() has v at p, and after a
\* render getValues() is what the fields show.
C6_GetValuesIsCurrent ==
  /\ lastOp.op = "setValue" => getValues[lastOp.path] = written[lastOp.path]
  /\ unflushed = 0 => \A p \in Paths : getValues[p] = rendered[p].value

\* C6 witness: setValue put a value the user cannot select
C6_Witness ==
  /\ lastOp = [op |-> "setValue", path |-> "department"]
  /\ written.department = "legal"
  /\ getValues.department = "legal"

\* C7: setValue(p, v) leaves the value of every other path, the onSubmit
\* invocations and the values reset() restores as they were.
C7_SetValueFrame ==
  [][ (OpStep /\ lastOp'.op = "setValue")
        => /\ \A q \in Paths \ {lastOp'.path} : formValues'[q] = formValues[q]
           /\ calls' = calls
           /\ lastData' = lastData
           /\ defaultValues' = defaultValues ]_vars

\* C7 witness: setValue on name while the other paths hold values that are
\* neither initial nor default
C7_Witness ==
  /\ lastOp = [op |-> "setValue", path |-> "name"]
  /\ formValues.name = "Al"
  /\ formValues.department = "marketing"
  /\ formValues.agreeToTerms = TRUE
  /\ defaultValues = initialValues

\* C8 as claimed: ref.current is the same handle object across every step
\* of the mounted form.
C8_HandleIsStable == [][handle'.id = handle.id]_vars

\* C9 as claimed: the formState read through the handle is the form's
\* current validation state.
C9_HandleFormStateIsCurrent == handle.formState.errors = errors

\* C10: until the first user input or handle call, the form state is
\* initialValues and every field shows initialValues at its path.
C10_FirstRenderShowsInitialValues ==
  lastOp.op = "mount" =>
    /\ formValues = initialValues
    /\ \A p \in Paths : rendered[p].value = initialValues[p]

\* C10 witness: the mounted form, rendered and untouched
C10_Witness ==
  /\ lastOp.op = "mount"
  /\ unflushed = 0
  /\ pending = << >>
  /\ rendered.department.value = "engineering"

\* C11: a TextField with a (non-empty) label renders one label element whose
\* htmlFor is the id of the TextField's input, both the field name, and whose
\* text is the label; a TextField without a label renders no label element.
C11_LabelAssociatedWithInput ==
  comp.kind = "TextField" =>
    LET props == comp.props
        out == comp.out
        hasLabel == Passed(props.label) /\ props.label[1] # ""
    IN /\ out.input.id = props.name
       /\ hasLabel => /\ Len(out.label) = 1
                      /\ out.label[1].htmlFor = out.input.id
                      /\ out.label[1].htmlFor = props.name
                      /\ out.label[1].spans[1] = props.label[1]
       /\ ~hasLabel => out.label = << >>

\* C11 witness: the README test's TextField name="name" label="Name"
C11_Witness ==
  /\ comp.kind = "TextField"
  /\ comp.props = [name |-> "name", label |-> << "Name" >>,
                   required |-> FALSE]
  /\ Len(comp.out.label) = 1
  /\ comp.out.label[1].htmlFor = "name"

\* C16: a SubmitButton is of type submit, is disabled exactly when isLoading
\* or disabled is passed as true, and shows loadingLabel (default
\* 'Submitting...') when isLoading is true and label (default 'Submit')
\* otherwise.
C16_SubmitButtonFromProps ==
  comp.kind = "SubmitButton" =>
    LET props == comp.props
        out == comp.out
        loading == props.isLoading = << TRUE >>
    IN /\ out.type = "submit"
       /\ out.disabled <=> (loading \/ props.disabled = << TRUE >>)
       /\ loading =>
            out.text = (IF props.loadingLabel = << >> THEN "Submitting..."
                        ELSE props.loadingLabel[1])
       /\ ~loading =>
            out.text = (IF props.label = << >> THEN "Submit"
                        ELSE props.label[1])

\* C16 witness: a SubmitButton that is disabled by its disabled prop alone
\* and shows its default label
C16_Witness ==
  /\ comp.kind = "SubmitButton"
  /\ comp.props.isLoading = << FALSE >>
  /\ comp.props.disabled = << TRUE >>
  /\ comp.props.label = << >>
  /\ comp.out.disabled
  /\ comp.out.text = "Submit"

\* C17: a SelectField renders one item per option, in the order given; a
\* user selection leaves in the bound field the value of an option that is
\* not disabled, and happens only when the SelectField is not disabled.
C17_SelectOnlyEnabledOptions ==
  comp.kind = "SelectField" =>
    LET options == comp.props.options IN
    /\ DOMAIN comp.out = 1..Len(options)
    /\ \A i \in 1..Len(options) :
         /\ comp.out[i].value = options[i].value
         /\ comp.out[i].text = options[i].text
    /\ comp.picked # << >> =>
         /\ ~comp.props.disabled
         /\ ~options[comp.picked[1]].disabled
         /\ comp.value = options[comp.picked[1]].value

\* C17 witness: the user picked the second option while the first one is
\* disabled
C17_Witness ==
  /\ comp.kind = "SelectField"
  /\ Len(comp.props.options) = 2
  /\ comp.props.options[1].disabled
  /\ comp.picked = << 2 >>
  /\ comp.value = "marketing"

\* C12: in a form without a schema every submit event hands the values it
\* found to handleSubmit, whose return invokes onSubmit once with exactly
\* those values; onSubmit is invoked by no other step; and no error is ever
\* recorded or shown.
C12_NoSchemaNoValidation ==
  [][ /\ (OpStep /\ lastOp'.op = "submit")
           => (pending' # << >> /\ pending'[1].values = formValues)
      /\ SettleStep
           => /\ lastOp'.op = "onSubmit"
              /\ lastData' = << Head(pending).values >>
              /\ calls' = Min(calls + 1, MaxCalls)
      /\ (lastData' # lastData \/ calls' # calls) => SettleStep
      /\ errors' = NoErrors
      /\ \A p \in Paths : rendered'[p].message = NoError ]_vars

\* C12 witness: without a schema, onSubmit was called with values that
\* userSchema rejects at two paths, and the form was rendered
C12_Witness ==
  /\ form = "NoSchema"
  /\ lastOp.op = "onSubmit"
  /\ unflushed = 0
  /\ lastData = << [name |-> "A", department |-> "marketing",
                    agreeToTerms |-> FALSE] >>
  /\ \A p \in Paths : rendered[p].message = NoError

\* C13: In the UserRegistrationForm example every submit that the schema
\* accepts starts handleSubmit, and when that handler has completed all five
\* fields hold their initial values (empty strings, department
\* 'engineering'), whatever was typed before or while the handler ran.
C13_SubmitFollowedByReset ==
  /\ lastOp.op = "onSubmit" => handler > 0
  /\ lastOp.op = "handlerDone" =>
       /\ formValues.firstName = ""
       /\ formValues.lastName = ""
       /\ formValues.email = ""
       /\ formValues.department = "engineering"
       /\ formValues.role = ""
       /\ formValues = initialValues

\* the handler has completed; the view, not yet rendered again, still shows
\* what the user typed (and cleared) while the handler was running
C13_Witness ==
  /\ lastOp.op = "handlerDone"
  /\ unflushed = 1
  /\ lastData = << [firstName |-> "Al", lastName |-> "Li", email |-> "a@b.co",
                    department |-> "marketing", role |-> "dev"] >>
  /\ rendered.firstName.value = ""
  /\ rendered.lastName.value = "Li"
  /\ rendered.department.value = "marketing"
  /\ formValues = UserRegistration_initialValues

\* C14: In the UserRegistrationForm example a click on 'Reset Form' sets the
\* form values to the initial values and clears the errors, and it starts no
\* submit: no resolver call is left awaiting, and handleSubmit is neither
\* called nor started by the click.
C14_ResetButtonOnlyResets ==
  [][ (OpStep /\ lastOp'.op = "resetButton")
        => /\ formValues' = UserRegistration_initialValues
           /\ errors' = UserRegistration_NoErrors
           /\ pending' = pending
           /\ calls' = calls
           /\ lastData' = lastData
           /\ handler' = handler ]_vars

\* 'Reset Form' was clicked on a form that a rejected submit had left with
\* typed values and error messages on screen
C14_Witness ==
  /\ lastOp.op = "resetButton"
  /\ unflushed = 1
  /\ rendered.firstName.value = "Al"
  /\ rendered.department.value = "marketing"
  /\ rendered.email.message = "Please enter a valid email address"
  /\ formValues = UserRegistration_initialValues
  /\ errors = UserRegistration_NoErrors
  /\ pending = << >>
  /\ calls = 0
  /\ handler = 0

\* C15: In the UserRegistrationForm example, while the asynchronous submit
\* handler is pending the rendered submit button is disabled and shows
\* 'Creating Account...', and with no handler pending it shows
\* 'Register User'.
C15_LoadingStateWhilePending ==
  /\ (handler > 0 /\ unflushed = 0)
       => /\ rendered.submitButton.disabled
          /\ rendered.submitButton.text = "Creating Account..."
  /\ (handler = 0 /\ unflushed = 0)
       => rendered.submitButton.text = "Register User"

====
